---- MODULE Spec2Model ----
(***************************************************************************)
(* The network orchestrator of wifi-connect (src/network.rs):              *)
(* process_network_commands and the helpers it calls, as a state machine.  *)
(* The Orchestrator thread is followed statement by statement through pc;  *)
(* the Server thread, the Timer thread and NetworkManager are its          *)
(* environment.                                                            *)
(***************************************************************************)
EXTENDS Integers, Sequences, FiniteSets, TLC

\* ------------------------------------------------------------------ bounds
\* Commands the Server context sends over one session.
MaxServerCmds == 3

\* ------------------------------------------------------- program constants
\* get_access_points: let retries_allowed = 10;
retries_allowed == 10
\* wait_for_connectivity(&manager, 20)
connectivity_timeout == 20

\* ---------------------------------------------------------------- domains
\* An ssid whose bytes are not valid text: ap.ssid().as_str() is Err.
Undecodable == "<not-utf8>"
Ssids == {"HomeNet", "Other"}
RawSsids == Ssids \cup {Undecodable}
AccessPoint == [ssid : RawSsids]
Passphrases == {"secret123"}
\* config.activity_timeout, seconds; 0 disables the Timer.
ActivityTimeouts == {0, 5}

AP(s) == [ssid |-> s]
\* What wifi_device.get_access_points() can report: nothing, only undecodable
\* ssids, the user's network alone, without it, with it in second place, twice,
\* and with an undecodable ssid in between.
RawScans ==
    { <<>>,
      <<AP(Undecodable)>>,
      <<AP("HomeNet")>>,
      <<AP("Other")>>,
      <<AP("Other"), AP("HomeNet")>>,
      <<AP("HomeNet"), AP("HomeNet")>>,
      <<AP("Other"), AP(Undecodable), AP("HomeNet")>> }

\* pub enum NetworkCommand
Activate == [type |-> "Activate"]
Timeout == [type |-> "Timeout"]
Connect(s, p) == [type |-> "Connect", ssid |-> s, passphrase |-> p]
\* Value of the local `command` before the first recv().
NoCommand == [type |-> "none"]
\* The network the user picks in the portal's form.
ConnectSsids == {"HomeNet"}
ServerCommands == {Activate} \cup {Connect(s, p) : s \in ConnectSsids, p \in Passphrases}

\* pub enum NetworkCommandResponse
AccessPointsSsids(ssids) == [type |-> "AccessPointsSsids", ssids |-> ssids]

\* ExitResult = Result<(), String>
ExitOk == [ok |-> TRUE, error |-> ""]
ExitErr(msg) == [ok |-> FALSE, error |-> msg]

\* network_manager::ConnectionState values a join can report.
ConnectionStates == {"Activated", "Activating", "Deactivated"}
\* network_manager::Connectivity
Connectivities == {"Unknown", "None", "Portal", "Limited", "Full"}

\* Devices NetworkManager can list: [interface, device_type].
WifiDevice == [interface |-> "wlan0", device_type |-> "WiFi"]
EthDevice == [interface |-> "eth0", device_type |-> "Ethernet"]
DeviceLists == {<<>>, <<EthDevice>>, <<EthDevice, WifiDevice>>}
\* config.interface: Option<String>
NoInterface == "<none>"
Interfaces == {NoInterface, "wlan0", "eth0", "wlan9"}
NoDevice == [interface |-> "", device_type |-> ""]

VARIABLES
    pc,                 \* Orchestrator's position in process_network_commands
    activity_timeout,   \* config.activity_timeout
    device,             \* let device
    access_points,      \* let mut access_points
    portal_connection,  \* let mut portal_connection: TRUE = Some(connection)
    dnsmasq,            \* the helper process::Child: "none", "running", "killed"
    activated,          \* let mut activated
    command,            \* let command (the command last received)
    retries,            \* get_access_points: let mut retries
    connection,         \* Connect arm: TRUE while the joined `connection` is held
    state,              \* Connect arm: the ConnectionState the join reported
    total_time,         \* wait_for_connectivity: let mut total_time
    connectivity,       \* wait_for_connectivity: let connectivity
    exit_connection,    \* exit_with_result: parameter `connection`
    exit_result,        \* exit_with_result: parameter `result`
    network_chan,       \* commands sent on network_tx, not yet received
    server_chan,        \* responses sent on server_tx
    exit_chan,          \* ExitResults the Orchestrator sent on exit_tx
    server,             \* Server thread: "unspawned", "running", "dead"
    server_sent,        \* commands the Server has sent
    timer,              \* Timer thread: "none", "sleeping", "done"
    nm_hotspots,        \* hotspot connection profiles NetworkManager holds
    nm_active,          \* hotspot profiles that are activated
    nm_stations,        \* station profiles created by joins and not deleted
    lastRaw,            \* get_access_points: what its latest raw scan reported
    scanCalls,          \* raw scan calls of the latest get_access_points call
    scanSleeps,         \* one-second delays of the latest get_access_points call
    helperKills         \* times dnsmasq.kill() was called

vars == <<pc, activity_timeout, device, access_points, portal_connection, dnsmasq,
          activated, command, retries, connection, state, total_time, connectivity,
          exit_connection, exit_result, network_chan, server_chan, exit_chan,
          server, server_sent, timer, nm_hotspots, nm_active, nm_stations,
          lastRaw, scanCalls, scanSleeps, helperKills>>

\* Groups used in UNCHANGED clauses.
locals == <<device, access_points, portal_connection, activated, command>>
joinv == <<connection, state, total_time, connectivity>>
scanv == <<retries, lastRaw, scanCalls, scanSleeps>>
exitv == <<exit_connection, exit_result>>
chans == <<network_chan, server_chan, exit_chan>>
threads == <<server, server_sent, timer>>
nmv == <<nm_hotspots, nm_active, nm_stations>>
helperv == <<dnsmasq, helperKills>>

\* ------------------------------------------------------- pure helpers
\* ap.ssid().as_str().is_ok()
as_str_is_ok(ap) == ap.ssid # Undecodable

\* access_points.retain(|ap| ap.ssid().as_str().is_ok())
retain(aps) == SelectSeq(aps, as_str_is_ok)

\* get_access_points_ssids_owned with a slip: consecutive duplicates collapse.
get_access_points_ssids_owned_dedup(aps) ==
    LET keep(i) == i = 1 \/ aps[i].ssid # aps[i - 1].ssid
        idx == SelectSeq([i \in 1..Len(aps) |-> i], keep)
    IN  [j \in 1..Len(idx) |-> aps[idx[j]].ssid]

\* access_points.iter().map(|ap| ap.ssid().as_str().unwrap().to_string()).collect()
get_access_points_ssids_owned(aps) == [i \in 1..Len(aps) |-> aps[i].ssid]

\* find_access_point: index of the first access point whose ssid decodes and
\* equals `ssid`; 0 stands for None.
find_access_point(aps, ssid) ==
    LET hits == {i \in 1..Len(aps) : as_str_is_ok(aps[i]) /\ aps[i].ssid = ssid}
    IN  IF hits = {} THEN 0 ELSE CHOOSE i \in hits : \A j \in hits : i <= j

\* find_device: the device, or NoDevice for Err.
find_device(devices, interface) ==
    IF interface # NoInterface
    THEN LET named == {i \in 1..Len(devices) : devices[i].interface = interface}
         IN  IF named = {} THEN NoDevice
             ELSE LET d == devices[CHOOSE i \in named : TRUE]
                  IN  IF d.device_type = "WiFi" THEN d ELSE NoDevice
    ELSE LET wifi == {i \in 1..Len(devices) : devices[i].device_type = "WiFi"}
         IN  IF wifi = {} THEN NoDevice
             ELSE devices[CHOOSE i \in wifi : \A j \in wifi : i <= j]

\* ------------------------------------------------------- decisions of the code
\* may_retry off by one: while retries <= retries_allowed
may_retry_inclusive(r) == r <= retries_allowed

\* get_access_points: while retries < retries_allowed
may_retry(r) == r < retries_allowed

\* scan_has_result asking for more than one access point
scan_has_result_many(aps) == Len(aps) > 1

\* get_access_points: if !access_points.is_empty() { return Ok(access_points) }
scan_has_result(aps) == aps # <<>>

\* timeout_exits without the test of activated
timeout_exits_always(act) == TRUE

\* NetworkCommand::Timeout arm: if activated == false
timeout_exits(act) == act = FALSE

\* stop_portal_failed with the teardown error dropped
stop_portal_failed_ignored(outcome) == FALSE

\* Connect arm: if let Err(e) = result (of stop_portal)
\* stop_portal_failed that sees only a failed deactivate
stop_portal_failed_deactivate_only(outcome) == outcome = "deactivate_failed"

stop_portal_failed(outcome) == outcome # "ok"

\* has_connectivity without the Limited case
has_connectivity_full_only(c) == c = "Full"

\* wait_for_connectivity:
\* connectivity == Connectivity::Full || connectivity == Connectivity::Limited
has_connectivity(c) == c \in {"Full", "Limited"}

\* poll_timed_out off by one: else if total_time > timeout
poll_timed_out_late(t) == t > connectivity_timeout

\* wait_for_connectivity: else if total_time >= timeout
poll_timed_out(t) == t >= connectivity_timeout

\* network_rx.recv() is Err only when the queue is empty and every Sender is
\* dropped: network_tx lives in the Server thread; network_tx_timeout is moved
\* into the Timer thread only when activity_timeout != 0 and otherwise stays a
\* local of process_network_commands.
senders_alive ==
    \/ server = "running"
    \/ timer = "sleeping"
    \/ activity_timeout = 0

Ended == {"done", "panicked"}
ScanPcs == {"setup_scan", "connect_scan", "fallback_scan"}

\* The statement after each get_access_points call.
AfterScan(p) ==
    CASE p = "setup_scan" -> "create_portal"
      [] p = "connect_scan" -> "connect_join"
      [] p = "fallback_scan" -> "fallback_create"

\* ------------------------------------------------------- exit routines
NoResult == [ok |-> FALSE, error |-> "<unset>"]

\* exit_with_result is entered: its three statements run as the steps
\* ExitKill, ExitStopPortal, ExitSend.
exit_with_result(conn, result) ==
    /\ pc' = "exit_kill"
    /\ exit_connection' = conn
    /\ exit_result' = result

\* exit_with_error that drops the portal connection it was given
exit_with_error_no_teardown(conn, error) == exit_with_result(FALSE, ExitErr(error))

exit_with_error(conn, error) == exit_with_result(conn, ExitErr(error))

exit_ok(conn) == exit_with_result(conn, ExitOk)

\* ::exit of the crate root: reports the error on exit_tx and returns.
exit(error) ==
    /\ exit_chan' = Append(exit_chan, ExitErr(error))
    /\ pc' = "done"

\* stop_portal: connection.deactivate()?; connection.delete()?; sleep(1s).
StopOutcomes == {"ok", "deactivate_failed", "delete_failed"}
Dec(n) == IF n > 0 THEN n - 1 ELSE 0
stop_portal(outcome) ==
    /\ nm_active' = IF outcome = "deactivate_failed" THEN nm_active ELSE Dec(nm_active)
    /\ nm_hotspots' = IF outcome = "ok" THEN Dec(nm_hotspots) ELSE nm_hotspots
    /\ UNCHANGED nm_stations

\* create_portal: wifi_device.create_hotspot(ssid, passphrase, gateway)?
create_portal(ok) ==
    /\ nm_hotspots' = IF ok THEN nm_hotspots + 1 ELSE nm_hotspots
    /\ nm_active' = IF ok THEN nm_active + 1 ELSE nm_active
    /\ UNCHANGED nm_stations

\* The locals and counters of a get_access_points call are gone once its
\* caller has moved on.
scan_frame_dropped ==
    /\ retries' = 0
    /\ scanCalls' = 0
    /\ scanSleeps' = 0
    /\ lastRaw' = <<>>

\* A call of get_access_points starts at program point p.
begin_scan(p) ==
    /\ pc' = p
    /\ scan_frame_dropped

\* The locals of the Connect arm's join block go out of scope.
join_frame_dropped ==
    /\ connection' = FALSE
    /\ state' = "none"
    /\ total_time' = 0
    /\ connectivity' = "none"

\* ------------------------------------------------------------------ Init
Init ==
    /\ pc = "find_device"
    /\ activity_timeout \in ActivityTimeouts
    /\ device = NoDevice
    /\ access_points = <<>>
    /\ portal_connection = FALSE
    /\ dnsmasq = "none"
    /\ activated = FALSE
    /\ command = NoCommand
    /\ retries = 0
    /\ connection = FALSE
    /\ state = "none"
    /\ total_time = 0
    /\ connectivity = "none"
    /\ exit_connection = FALSE
    /\ exit_result = NoResult
    /\ network_chan = <<>>
    /\ server_chan = <<>>
    /\ exit_chan = <<>>
    /\ server = "unspawned"
    /\ server_sent = 0
    /\ timer = "none"
    /\ nm_hotspots = 0
    /\ nm_active = 0
    /\ nm_stations = 0
    /\ lastRaw = <<>>
    /\ scanCalls = 0
    /\ scanSleeps = 0
    /\ helperKills = 0

\* ------------------------------------------------------------------ setup
\* let device = match find_device(&manager, &config.interface)
FindDevice ==
    /\ pc = "find_device"
    /\ \E devices \in DeviceLists, interface \in Interfaces :
        LET d == find_device(devices, interface)
        IN  IF d # NoDevice
            THEN /\ device' = d
                 /\ begin_scan("setup_scan")
                 /\ UNCHANGED exit_chan
            ELSE /\ exit("Cannot find a WiFi device")
                 /\ UNCHANGED <<device, scanv>>
    /\ UNCHANGED <<activity_timeout, access_points, portal_connection, activated,
                   command, joinv, exitv, network_chan, server_chan, threads, nmv,
                   helperv>>

\* One pass of the while loop of get_access_points, and what its caller does
\* with an Err or an Ok return.
ScanAttempt ==
    /\ pc \in ScanPcs
    /\ may_retry(retries)
    /\ scanCalls' = scanCalls + 1
    /\ \/ \* wifi_device.get_access_points()? is Err
          /\ IF pc = "setup_scan"
             THEN /\ exit("Getting access points failed")
                  /\ UNCHANGED exitv
             ELSE /\ exit_with_error(portal_connection, "Getting access points failed")
                  /\ UNCHANGED exit_chan
          /\ UNCHANGED <<access_points, retries, lastRaw, scanSleeps>>
       \/ \E r \in RawScans :
          /\ lastRaw' = r
          /\ IF scan_has_result(retain(r))
             THEN \* return Ok(access_points)
                  /\ access_points' = retain(r)
                  /\ pc' = AfterScan(pc)
                  /\ UNCHANGED <<retries, scanSleeps>>
             ELSE \* retries += 1; sleep(1s)
                  /\ retries' = retries + 1
                  /\ scanSleeps' = scanSleeps + 1
                  /\ UNCHANGED <<pc, access_points>>
          /\ UNCHANGED <<exitv, exit_chan>>
    /\ UNCHANGED <<activity_timeout, device, portal_connection, activated, command,
                   joinv, network_chan, server_chan, threads, nmv, helperv>>

\* get_access_points after the loop: warn!("... giving up..."); Ok(vec![])
ScanGiveUp ==
    /\ pc \in ScanPcs
    /\ ~may_retry(retries)
    /\ access_points' = <<>>
    /\ pc' = AfterScan(pc)
    /\ UNCHANGED <<activity_timeout, device, portal_connection, activated, command,
                   joinv, scanv, exitv, chans, threads, nmv, helperv>>

\* let mut portal_connection = match create_portal(...)
CreatePortal ==
    /\ pc = "create_portal"
    /\ \E ok \in BOOLEAN :
        /\ create_portal(ok)
        /\ IF ok
           THEN /\ portal_connection' = TRUE
                /\ pc' = "start_dnsmasq"
                /\ UNCHANGED exit_chan
           ELSE /\ exit("Creating the access point failed")
                /\ UNCHANGED portal_connection
    /\ scan_frame_dropped
    /\ UNCHANGED <<activity_timeout, device, access_points, activated, command, joinv,
                   exitv, network_chan, server_chan, threads, helperv>>

\* let dnsmasq = start_dnsmasq(config, &device).unwrap();
StartDnsmasq ==
    /\ pc = "start_dnsmasq"
    /\ \E ok \in BOOLEAN :
        IF ok
        THEN /\ dnsmasq' = "running"
             /\ pc' = "spawn"
        ELSE /\ pc' = "panicked"
             /\ UNCHANGED dnsmasq
    /\ UNCHANGED <<activity_timeout, locals, joinv, scanv, exitv, chans, threads, nmv,
                   helperKills>>

\* Spawn that starts the Timer whatever activity_timeout is
Spawn_timer_always ==
    /\ pc = "spawn"
    /\ server' = "running"
    /\ timer' = "sleeping"
    /\ activated' = FALSE
    /\ pc' = "recv"
    /\ UNCHANGED <<activity_timeout, device, access_points, portal_connection, command,
                   joinv, scanv, exitv, chans, server_sent, nmv, helperv>>

\* channel(); thread::spawn(start_server); if config.activity_timeout != 0
\* { thread::spawn(timer) }; let mut activated = false;
Spawn ==
    /\ pc = "spawn"
    /\ server' = "running"
    /\ timer' = IF activity_timeout # 0 THEN "sleeping" ELSE "none"
    /\ activated' = FALSE
    /\ pc' = "recv"
    /\ UNCHANGED <<activity_timeout, device, access_points, portal_connection, command,
                   joinv, scanv, exitv, chans, server_sent, nmv, helperv>>

\* ------------------------------------------------------------ command loop
\* network_rx.recv() returned Ok(NetworkCommand::Activate)
HandleActivate ==
    /\ pc = "recv"
    /\ network_chan # <<>>
    /\ Head(network_chan).type = "Activate"
    /\ command' = Head(network_chan)
    /\ network_chan' = Tail(network_chan)
    /\ activated' = TRUE
    /\ IF server = "running"
       THEN /\ server_chan' = Append(server_chan,
                    AccessPointsSsids(get_access_points_ssids_owned(access_points)))
            /\ UNCHANGED <<pc, exitv>>
       ELSE \* server_rx is dropped: server_tx.send is Err
            /\ exit_with_error(portal_connection,
                               "Sending access point ssids results failed")
            /\ UNCHANGED server_chan
    /\ UNCHANGED <<activity_timeout, device, access_points, portal_connection, joinv,
                   scanv, exit_chan, threads, nmv, helperv>>

\* network_rx.recv() returned Ok(NetworkCommand::Timeout)
HandleTimeout ==
    /\ pc = "recv"
    /\ network_chan # <<>>
    /\ Head(network_chan).type = "Timeout"
    /\ command' = Head(network_chan)
    /\ network_chan' = Tail(network_chan)
    /\ IF timeout_exits(activated)
       THEN exit_ok(portal_connection)
       ELSE UNCHANGED <<pc, exitv>>
    /\ UNCHANGED <<activity_timeout, device, access_points, portal_connection,
                   activated, joinv, scanv, server_chan, exit_chan, threads, nmv,
                   helperv>>

\* HandleConnect that marks the session activated
HandleConnect_activates ==
    /\ pc = "recv"
    /\ network_chan # <<>>
    /\ Head(network_chan).type = "Connect"
    /\ command' = Head(network_chan)
    /\ network_chan' = Tail(network_chan)
    /\ activated' = TRUE
    /\ pc' = "connect_stop"
    /\ UNCHANGED <<activity_timeout, device, access_points, portal_connection,
                   joinv, scanv, exitv, server_chan, exit_chan, threads,
                   nmv, helperv>>

\* network_rx.recv() returned Ok(NetworkCommand::Connect { ssid, passphrase })
HandleConnect ==
    /\ pc = "recv"
    /\ network_chan # <<>>
    /\ Head(network_chan).type = "Connect"
    /\ command' = Head(network_chan)
    /\ network_chan' = Tail(network_chan)
    /\ pc' = "connect_stop"
    /\ UNCHANGED <<activity_timeout, device, access_points, portal_connection,
                   activated, joinv, scanv, exitv, server_chan, exit_chan, threads,
                   nmv, helperv>>

\* network_rx.recv() returned Err: sleep(1s); return exit_with_error(...)
RecvError ==
    /\ pc = "recv"
    /\ network_chan = <<>>
    /\ ~senders_alive
    /\ exit_with_error(portal_connection, "Receiving network command failed")
    /\ UNCHANGED <<activity_timeout, locals, joinv, scanv, chans, threads, nmv,
                   helperv>>

\* Connect arm: if let Some(connection) = portal_connection { stop_portal ... }
ConnectStopPortal ==
    /\ pc = "connect_stop"
    /\ IF portal_connection
       THEN \E outcome \in StopOutcomes :
            /\ stop_portal(outcome)
            /\ IF stop_portal_failed(outcome)
               THEN /\ exit_with_error(TRUE, "Stopping the access point failed")
                    /\ UNCHANGED <<portal_connection, scanv>>
               ELSE /\ portal_connection' = FALSE
                    /\ begin_scan("connect_scan")
                    /\ UNCHANGED exitv
       ELSE /\ begin_scan("connect_scan")
            /\ UNCHANGED <<portal_connection, exitv, nmv>>
    /\ UNCHANGED <<activity_timeout, device, access_points, activated, command, joinv,
                   chans, threads, helperv>>

\* find_access_point(&access_points, &ssid).unwrap();
\* match wifi_device.connect(access_point, &passphrase)
ConnectJoin ==
    /\ pc = "connect_join"
    /\ IF find_access_point(access_points, command.ssid) = 0
       THEN \* unwrap() of None panics
            /\ pc' = "panicked"
            /\ scan_frame_dropped
            /\ UNCHANGED <<joinv, nm_stations>>
       ELSE \E joined \in ConnectionStates \cup {"Err"} :
            IF joined = "Err"
            THEN /\ begin_scan("fallback_scan")
                 /\ UNCHANGED <<joinv, nm_stations>>
            ELSE /\ connection' = TRUE
                 /\ state' = joined
                 /\ nm_stations' = nm_stations + 1
                 /\ total_time' = 0
                 /\ connectivity' = "none"
                 /\ pc' = IF joined = "Activated"
                          THEN "wait_for_connectivity"
                          ELSE "connection_delete"
                 /\ scan_frame_dropped
    /\ UNCHANGED <<activity_timeout, locals, exitv, chans, threads, nm_hotspots,
                   nm_active, helperv>>

\* One pass of the loop of wait_for_connectivity, and what the Connect arm does
\* with its return.
WaitForConnectivity ==
    /\ pc = "wait_for_connectivity"
    /\ \E c \in Connectivities \cup {"Err"} :
        IF c = "Err"
        THEN \* manager.get_connectivity()? is Err:
             \* error!("Getting connectivity failed: ...")
             /\ pc' = "connection_delete"
             /\ connectivity' = c
             /\ total_time' = 0
             /\ UNCHANGED exitv
        ELSE IF has_connectivity(c)
        THEN \* return Ok(true); the Connect arm returns exit_ok(...)
             /\ exit_ok(portal_connection)
             /\ connectivity' = c
             /\ total_time' = 0
        ELSE IF poll_timed_out(total_time)
        THEN \* return Ok(false); warn!("Cannot establish connectivity")
             /\ pc' = "connection_delete"
             /\ connectivity' = c
             /\ total_time' = 0
             /\ UNCHANGED exitv
        ELSE \* sleep(1s); total_time += 1; the next pass binds connectivity anew
             /\ total_time' = total_time + 1
             /\ connectivity' = "none"
             /\ UNCHANGED <<pc, exitv>>
    /\ UNCHANGED <<activity_timeout, locals, connection, state, scanv, chans, threads,
                   nmv, helperv>>

\* ConnectionDelete with a failed delete made fatal
ConnectionDelete_fatal ==
    /\ pc = "connection_delete"
    /\ \E ok \in BOOLEAN :
        /\ nm_stations' = IF ok THEN Dec(nm_stations) ELSE nm_stations
        /\ IF ok
           THEN /\ begin_scan("fallback_scan")
                /\ UNCHANGED exitv
           ELSE /\ exit_with_error(portal_connection,
                                   "Deleting connection object failed")
                /\ UNCHANGED scanv
    /\ join_frame_dropped
    /\ UNCHANGED <<activity_timeout, locals, chans, threads, nm_hotspots, nm_active,
                   helperv>>

\* if let Err(err) = connection.delete() { error!(...) }
ConnectionDelete ==
    /\ pc = "connection_delete"
    /\ \E ok \in BOOLEAN :
        nm_stations' = IF ok THEN Dec(nm_stations) ELSE nm_stations
    /\ join_frame_dropped
    /\ begin_scan("fallback_scan")
    /\ UNCHANGED <<activity_timeout, locals, exitv, chans, threads, nm_hotspots,
                   nm_active, helperv>>

\* FallbackCreate that does not store the new portal connection
FallbackCreate_forgets ==
    /\ pc = "fallback_create"
    /\ \E ok \in BOOLEAN :
        /\ create_portal(ok)
        /\ IF ok
           THEN /\ pc' = "recv"
                /\ UNCHANGED exitv
           ELSE exit_with_error(portal_connection, "Creating the access point failed")
    /\ UNCHANGED portal_connection
    /\ scan_frame_dropped
    /\ UNCHANGED <<activity_timeout, device, access_points, activated, command, joinv,
                   chans, threads, helperv>>

\* portal_connection = match create_portal(...) at the end of the Connect arm
FallbackCreate ==
    /\ pc = "fallback_create"
    /\ \E ok \in BOOLEAN :
        /\ create_portal(ok)
        /\ IF ok
           THEN /\ portal_connection' = TRUE
                /\ pc' = "recv"
                /\ UNCHANGED exitv
           ELSE /\ exit_with_error(portal_connection,
                                   "Creating the access point failed")
                /\ UNCHANGED portal_connection
    /\ scan_frame_dropped
    /\ UNCHANGED <<activity_timeout, device, access_points, activated, command, joinv,
                   chans, threads, helperv>>

\* ---------------------------------------------------------- exit_with_result
\* let _ = dnsmasq.kill();
ExitKill ==
    /\ pc = "exit_kill"
    /\ dnsmasq' = "killed"
    /\ helperKills' = helperKills + 1
    /\ pc' = "exit_stop_portal"
    /\ UNCHANGED <<activity_timeout, locals, joinv, scanv, exitv, chans, threads, nmv>>

\* if let Some(connection) = connection { let _ = stop_portal(&connection, ssid); }
ExitStopPortal ==
    /\ pc = "exit_stop_portal"
    /\ IF exit_connection
       THEN \E outcome \in StopOutcomes : stop_portal(outcome)
       ELSE UNCHANGED nmv
    /\ pc' = "exit_send"
    /\ UNCHANGED <<activity_timeout, locals, joinv, scanv, exitv, chans, threads,
                   helperv>>

\* let _ = exit_tx.send(result); and process_network_commands returns
ExitSend ==
    /\ pc = "exit_send"
    /\ exit_chan' = Append(exit_chan, exit_result)
    /\ pc' = "done"
    /\ UNCHANGED <<activity_timeout, locals, joinv, scanv, exitv, network_chan,
                   server_chan, threads, nmv, helperv>>

\* ------------------------------------------------------------- environment
\* The Server thread sends a command on network_tx.
ServerSend ==
    /\ server = "running"
    /\ pc \notin Ended
    /\ server_sent < MaxServerCmds
    /\ \E cmd \in ServerCommands : network_chan' = Append(network_chan, cmd)
    /\ server_sent' = server_sent + 1
    /\ UNCHANGED <<pc, activity_timeout, locals, joinv, scanv, exitv, server_chan,
                   exit_chan, server, timer, nmv, helperv>>

\* The Server thread ends: its network_tx and server_rx are dropped.
ServerDie ==
    /\ server = "running"
    /\ pc \notin Ended
    /\ server' = "dead"
    /\ UNCHANGED <<pc, activity_timeout, locals, joinv, scanv, exitv, chans,
                   server_sent, timer, nmv, helperv>>

\* The Timer thread wakes: network_tx_timeout.send(NetworkCommand::Timeout),
\* then the thread ends and drops its Sender.
TimerFire ==
    /\ timer = "sleeping"
    /\ timer' = "done"
    /\ network_chan' = IF pc \in Ended THEN network_chan
                       ELSE Append(network_chan, Timeout)
    /\ UNCHANGED <<pc, activity_timeout, locals, joinv, scanv, exitv, server_chan,
                   exit_chan, server, server_sent, nmv, helperv>>

\* --------------------------------------------------------- specification
Orchestrator ==
    \/ FindDevice
    \/ ScanAttempt
    \/ ScanGiveUp
    \/ CreatePortal
    \/ StartDnsmasq
    \/ Spawn
    \/ HandleActivate
    \/ HandleTimeout
    \/ HandleConnect
    \/ RecvError
    \/ ConnectStopPortal
    \/ ConnectJoin
    \/ WaitForConnectivity
    \/ ConnectionDelete
    \/ FallbackCreate
    \/ ExitKill
    \/ ExitStopPortal
    \/ ExitSend

Next ==
    \/ FindDevice
    \/ ScanAttempt
    \/ ScanGiveUp
    \/ CreatePortal
    \/ StartDnsmasq
    \/ Spawn
    \/ HandleActivate
    \/ HandleTimeout
    \/ HandleConnect
    \/ RecvError
    \/ ConnectStopPortal
    \/ ConnectJoin
    \/ WaitForConnectivity
    \/ ConnectionDelete
    \/ FallbackCreate
    \/ ExitKill
    \/ ExitStopPortal
    \/ ExitSend
    \/ ServerSend
    \/ ServerDie
    \/ TimerFire

Spec == Init /\ [][Next]_vars

\* The Orchestrator thread keeps running while it has a step to take, and the
\* Timer's sleep ends; the Server owes nothing.
FairSpec == Spec /\ WF_vars(Orchestrator) /\ WF_vars(TimerFire)

\* ------------------------------------------------------------ properties
ExitPcs == {"exit_kill", "exit_stop_portal", "exit_send"}
FallbackPcs == {"connection_delete", "fallback_scan", "fallback_create"}
\* The statements that follow a return of get_access_points.
ScanReturnedPcs == {"create_portal", "connect_join", "fallback_create"}

\* The ssids of a raw scan that decode as text, in scan order.
RECURSIVE Decodable(_)
Decodable(raw) ==
    IF raw = <<>> THEN <<>>
    ELSE (IF Head(raw).ssid = Undecodable THEN <<>> ELSE <<Head(raw).ssid>>)
         \o Decodable(Tail(raw))

\* The ssids of a snapshot, entry by entry.
SnapshotSsids(aps, ssids) ==
    /\ Len(ssids) = Len(aps)
    /\ \A i \in 1..Len(aps) : ssids[i] = aps[i].ssid

\* The step in which the Orchestrator takes a command of type t off the queue.
Processed(t) ==
    /\ pc = "recv"
    /\ network_chan # <<>>
    /\ Head(network_chan).type = t
    /\ network_chan' = Tail(network_chan)

\* C1: a session that started the helper and then ended has killed the helper
\* exactly once, and no ExitResult is on the exit channel before that kill.
C1_HelperKilledOnceBeforeExit ==
    /\ (pc \in Ended /\ dnsmasq # "none") => helperKills = 1
    /\ (exit_chan # <<>> /\ dnsmasq # "none") => helperKills = 1
    /\ helperKills <= 1

\* C2: NetworkManager never holds more than one hotspot profile, and whenever
\* create_portal is about to be called no earlier hotspot profile is left,
\* neither active nor undeleted.
C2_AtMostOnePortal ==
    /\ nm_hotspots <= 1
    /\ nm_active <= 1
    /\ pc \in {"create_portal", "fallback_create"} =>
         (nm_hotspots = 0 /\ nm_active = 0 /\ ~portal_connection)

\* C2 witness: a Connect fell back and the portal was created a second time.
C2_Witness ==
    /\ pc = "recv"
    /\ command.type = "Connect"
    /\ portal_connection
    /\ nm_hotspots = 1

\* C3: a session that has ended has put exactly one ExitResult on the exit
\* channel, and no session ever puts two.
C3_ExactlyOneExitResult ==
    /\ Len(exit_chan) <= 1
    /\ pc \in Ended => Len(exit_chan) = 1

\* C4: a session whose last command was a Connect never holds two hotspot
\* profiles and, if it has ended, has reported an ExitResult: it never stops
\* without one.
C4_AbsentSsidHandled ==
    /\ nm_hotspots <= 1
    /\ (command.type = "Connect" /\ pc \in Ended) => Len(exit_chan) = 1

\* C5, the step: taking a Timeout off the queue while activated is false enters
\* the exit path with a success result; while activated is true it changes
\* nothing but the queue and the received command, and the Orchestrator is
\* back at recv.
C5_TimeoutStep ==
    [][Processed("Timeout") =>
         IF activated
         THEN /\ pc' = "recv"
              /\ UNCHANGED <<activity_timeout, device, access_points,
                             portal_connection, activated, joinv, scanv, exitv,
                             server_chan, exit_chan, threads, nmv, helperv>>
         ELSE /\ pc' = "exit_kill"
              /\ exit_result' = ExitOk
              /\ exit_connection' = portal_connection]_vars

\* C5, the outcome: while the last command is a Timeout, the session is ending
\* with success exactly when no Activate was processed, and then ends with the
\* one ExitResult success; after an Activate the Timeout itself never ends it
\* (only a failed receive can, with a failure).
C5_TimeoutOutcome ==
    [](command = Timeout =>
         /\ ~activated =>
              /\ pc \in ExitPcs \cup {"done"}
              /\ exit_result = ExitOk
              /\ pc = "done" => exit_chan = <<ExitOk>>
         /\ activated =>
              /\ exit_result # ExitOk
              /\ pc \in {"recv"} \cup ExitPcs \cup {"done"}
              /\ pc # "recv" => exit_result = ExitErr("Receiving network command failed"))

\* C5, the idle session: with a Timer spawned and a Server that never sends a
\* command, a session waiting at recv eventually ends with success.
C5_IdleSessionEnds ==
    [](server_sent = 0) =>
        ((pc = "recv" /\ activity_timeout # 0) ~> (pc = "done" /\ exit_chan = <<ExitOk>>))

\* C5: a Timeout ends the session, with success, exactly when no Activate was
\* processed before it; an idle session with a Timer eventually ends so.
C5_TimeoutIffNotActivated ==
    /\ C5_TimeoutStep
    /\ C5_TimeoutOutcome
    /\ C5_IdleSessionEnds

\* C5 witness: a Timeout was processed after an Activate and the Orchestrator
\* is waiting for the next command, nothing reported.
C5_Witness ==
    /\ pc = "recv"
    /\ command = Timeout
    /\ activated
    /\ exit_chan = <<>>
    /\ dnsmasq = "running"

\* C6: the response sent for an Activate lists the ssids of the snapshot held
\* at that moment, entry by entry, and the snapshot only ever changes to the
\* decodable ssids, in scan order, of the raw scan get_access_points returned
\* from.
C6_SsidsFromCurrentSnapshot ==
    /\ [][(Processed("Activate") /\ server = "running") =>
            /\ Len(server_chan') = Len(server_chan) + 1
            /\ SubSeq(server_chan', 1, Len(server_chan)) = server_chan
            /\ server_chan'[Len(server_chan')].type = "AccessPointsSsids"
            /\ SnapshotSsids(access_points, server_chan'[Len(server_chan')].ssids)]_vars
    /\ [][access_points' # access_points =>
            /\ pc \in ScanPcs
            /\ pc' = AfterScan(pc)
            /\ SnapshotSsids(access_points', Decodable(lastRaw'))]_vars
    /\ [][(server_chan' # server_chan) => Processed("Activate")]_vars

\* C6 witness: after a Connect that fell back, a repeated Activate was answered
\* with a list that differs from the first answer and holds a duplicate.
C6_Witness ==
    /\ pc = "recv"
    /\ command = Activate
    /\ Len(server_chan) = 2
    /\ server_chan[1].ssids # server_chan[2].ssids
    /\ server_chan[2].ssids = <<"HomeNet", "HomeNet">>
    /\ server_sent = 3

\* C7: while get_access_points is retrying, every raw scan so far decoded to
\* nothing and each was followed by one delay; when it returns a non-empty
\* list, that list is the decodable part of its latest raw scan, obtained on
\* call k+1 after exactly k delays, k < retries_allowed.
C7_ReturnsOnFirstNonEmptyScan ==
    /\ pc \in ScanPcs =>
         /\ Decodable(lastRaw) = <<>>
         /\ scanSleeps = scanCalls
         /\ scanCalls = retries
    /\ (pc \in ScanReturnedPcs /\ access_points # <<>>) =>
         /\ SnapshotSsids(access_points, Decodable(lastRaw))
         /\ scanCalls = scanSleeps + 1
         /\ scanSleeps < retries_allowed

\* C7 witness: three empty scans, then one that reported two access points.
C7_Witness ==
    /\ pc \in ScanReturnedPcs
    /\ scanSleeps = 3
    /\ scanCalls = 4
    /\ Len(access_points) = 2

\* C8: get_access_points never makes more than retries_allowed raw scans; when
\* it returns the empty list it has made exactly that many, each followed by a
\* delay, nothing has been reported on the exit channel, and the caller goes
\* on to its next statement (in setup: creating the hotspot).
C8_EmptyAfterRetryBudget ==
    /\ scanCalls <= retries_allowed
    /\ (pc \in ScanReturnedPcs /\ access_points = <<>>) =>
         /\ scanCalls = retries_allowed
         /\ scanSleeps = retries_allowed
         /\ exit_chan = <<>>
         /\ exit_result = NoResult

\* C8 witness: the command loop is reached with the hotspot up and an empty
\* snapshot.
C8_Witness ==
    /\ pc = "recv"
    /\ access_points = <<>>
    /\ command = NoCommand
    /\ portal_connection
    /\ nm_active = 1
    /\ dnsmasq = "running"

\* C9: once the connectivity poll of a Connect has seen Full or Limited, the
\* session is in the exit path with a success result and no portal, none is
\* created any more, and when it has ended the helper is killed and the one
\* ExitResult is success. Conversely a poll result other than Full or Limited
\* never leads to the success exit.
C9_VerifiedConnectSucceeds ==
    /\ connectivity \in {"Full", "Limited"} =>
         /\ pc \in ExitPcs \cup {"done"}
         /\ command.type = "Connect"
         /\ state = "Activated"
         /\ exit_result = ExitOk
         /\ ~exit_connection
         /\ ~portal_connection
         /\ nm_hotspots = 0
         /\ pc = "done" => (exit_chan = <<ExitOk>> /\ dnsmasq = "killed")
    /\ (command.type = "Connect" /\ pc \in ExitPcs \cup {"done"} /\ exit_result = ExitOk) =>
         connectivity \in {"Full", "Limited"}

\* C9 witness: a session ended by a verified Connect.
C9_Witness ==
    /\ pc = "done"
    /\ connectivity = "Limited"
    /\ exit_chan = <<ExitOk>>
    /\ dnsmasq = "killed"

\* The step by which a join fails: the connect call is Err, or the state it
\* reports is not Activated, or the connectivity poll ends false or Err.
JoinFailed ==
    \/ pc = "connect_join" /\ pc' \notin {"connect_join", "panicked", "wait_for_connectivity"}
    \/ pc = "wait_for_connectivity" /\ pc' \notin {"wait_for_connectivity"} \cup ExitPcs

\* C10 as stated: after a failed join the session never ends; it deletes,
\* re-scans, recreates the portal and is back at recv.
C10_FailedJoinNeverEnds ==
    /\ [][JoinFailed => pc' \in FallbackPcs]_vars
    /\ [][(pc \in FallbackPcs) => (pc' \in FallbackPcs \cup {"recv"})]_vars

\* C10 amended: after a failed join the Orchestrator deletes the joined
\* connection (a failed delete changes nothing), re-scans and recreates the
\* portal; it is back at recv with exactly one active portal, unless the
\* re-scan or the portal creation fails, which ends the session with that
\* failure.
C10_FailedJoinFallsBack ==
    /\ [][JoinFailed => pc' \in FallbackPcs]_vars
    /\ [][pc = "connection_delete" =>
            (pc' \in {"connection_delete", "fallback_scan"})]_vars
    /\ [][(pc \in FallbackPcs) =>
            \/ pc' \in FallbackPcs
            \/ /\ pc' = "recv"
               /\ pc = "fallback_create"
               /\ portal_connection'
               /\ nm_hotspots' = 1
               /\ nm_active' = 1
            \/ /\ pc' = "exit_kill"
               /\ \/ pc = "fallback_scan" /\ exit_result' = ExitErr("Getting access points failed")
                  \/ pc = "fallback_create" /\ exit_result' = ExitErr("Creating the access point failed")]_vars

\* C10 witness: the joined connection could not be deleted, and the session is
\* back at recv with the portal recreated.
C10_Witness ==
    /\ pc = "recv"
    /\ command.type = "Connect"
    /\ nm_stations = 1
    /\ portal_connection
    /\ nm_hotspots = 1
    /\ nm_active = 1
    /\ exit_chan = <<>>

\* The step by which wait_for_connectivity returns.
PollReturns == pc = "wait_for_connectivity" /\ pc' # "wait_for_connectivity"

\* C11, the steps: a poll that sees Full or Limited returns true at once (the
\* Connect arm leaves with success); a poll that sees another status returns
\* false exactly when total_time has reached the timeout, and otherwise is
\* followed by one second of sleep, total_time growing by one; a poll that
\* fails returns the error.
C11_PollSteps ==
    /\ [][(PollReturns /\ connectivity' \in {"Full", "Limited"}) =>
            (pc' = "exit_kill" /\ exit_result' = ExitOk)]_vars
    /\ [][(PollReturns /\ connectivity' \in {"Unknown", "None", "Portal"}) =>
            (pc' = "connection_delete" /\ total_time = connectivity_timeout)]_vars
    /\ [][(PollReturns /\ pc' = "exit_kill") =>
            (connectivity' \in {"Full", "Limited"})]_vars
    /\ [][(pc = "wait_for_connectivity" /\ total_time' # total_time /\ ~PollReturns) =>
            (total_time' = total_time + 1 /\ total_time < connectivity_timeout)]_vars

\* C11, termination: total_time never passes the timeout, and a poll loop that
\* was entered is left.
C11_PollTerminates ==
    /\ [](total_time <= connectivity_timeout)
    /\ (pc = "wait_for_connectivity") ~> (pc # "wait_for_connectivity")

\* C11: wait_for_connectivity polls once per second of total_time, returns true
\* at the first poll that sees Full or Limited, returns false once total_time
\* has reached the timeout without such a poll, and always returns.
C11_WaitForConnectivity ==
    /\ C11_PollSteps
    /\ C11_PollTerminates

\* C11 witness: the poll loop gave up (it returned false, which it does only
\* at the timeout) and the Connect arm goes on to delete the connection.
C11_Witness ==
    /\ pc = "connection_delete"
    /\ state = "Activated"
    /\ connectivity = "Portal"

\* C12: once the session has ended or an ExitResult is on the exit channel, the
\* helper is not left running and a portal the Orchestrator still holds has
\* been handed to the exit routine's teardown.
C12_CleanupBeforeReport ==
    (pc \in Ended \/ exit_chan # <<>>) =>
        /\ dnsmasq # "running"
        /\ portal_connection => exit_connection

\* C13: a session that ended before the Server was spawned has reported exactly
\* one failure on the exit channel, has no Timer and has processed no command.
C13_SetupFailureIsReported ==
    (pc \in Ended /\ server = "unspawned") =>
        /\ Len(exit_chan) = 1
        /\ ~exit_chan[1].ok
        /\ timer = "none"
        /\ command = NoCommand
        /\ network_chan = <<>>

\* The Connect arm's stop_portal returned Err (the hotspot
\* profile is still there after the call).
StopFailsAtConnect ==
    /\ pc = "connect_stop"
    /\ pc' # "connect_stop"
    /\ portal_connection
    /\ nm_hotspots' = nm_hotspots

StopFailure == ExitErr("Stopping the access point failed")

\* C14: when the teardown at the start of a Connect fails the Orchestrator
\* enters the exit routine with the failure "Stopping the access point failed";
\* from then on there is no scan, no join, no portal creation and no further
\* command, and the session ends with that one failure on the exit channel.
C14_TeardownFailureIsFatal ==
    /\ [][StopFailsAtConnect =>
            (pc' = "exit_kill" /\ exit_result' = StopFailure /\ exit_connection')]_vars
    /\ [][(exit_result = StopFailure) =>
            (/\ pc' \in ExitPcs \cup {"done"}
             /\ scanCalls' = 0
             /\ connection' = FALSE
             /\ nm_stations' = nm_stations
             /\ nm_hotspots' <= nm_hotspots
             /\ command' = command
             /\ exit_result' = exit_result)]_vars
    /\ []((pc = "done" /\ exit_result = StopFailure) => exit_chan = <<StopFailure>>)

\* C14 witness: a session ended by a failed teardown at the start of a Connect.
C14_Witness ==
    /\ pc = "done"
    /\ command.type = "Connect"
    /\ exit_chan = <<StopFailure>>

LoopErrors ==
    { "Getting access points failed", "Creating the access point failed",
      "Sending access point ssids results failed",
      "Receiving network command failed" }

\* wifi_device.get_access_points() returned Err in a scan of the Connect arm.
LoopScanFails ==
    /\ pc \in {"connect_scan", "fallback_scan"}
    /\ scanCalls' = scanCalls + 1
    /\ retries' = retries
    /\ lastRaw' = lastRaw

\* create_portal at the end of the Connect arm returned Err.
LoopCreateFails ==
    /\ pc = "fallback_create"
    /\ pc' # "fallback_create"
    /\ nm_hotspots' = nm_hotspots

\* The Activate reply is sent to a Server that is gone.
LoopSendFails == Processed("Activate") /\ server # "running"

\* network_rx.recv() returned Err.
LoopRecvFails ==
    /\ pc = "recv"
    /\ pc' # "recv"
    /\ network_chan = <<>>

LoopExit(msg) ==
    /\ pc' = "exit_kill"
    /\ exit_result' = ExitErr(msg)
    /\ exit_connection' = portal_connection

\* C15: each of the four loop failures enters the exit routine with its failure
\* result and the portal connection held at that moment; the exit routine kills
\* the helper, runs stop_portal on that connection, then sends the failure, and
\* no command is taken off the queue after the failure.
C15_LoopFailureEndsSession ==
    /\ [][LoopScanFails => LoopExit("Getting access points failed")]_vars
    /\ [][LoopCreateFails => LoopExit("Creating the access point failed")]_vars
    /\ [][LoopSendFails => LoopExit("Sending access point ssids results failed")]_vars
    /\ [][LoopRecvFails => LoopExit("Receiving network command failed")]_vars
    /\ [][(pc = "exit_stop_portal" /\ exit_connection) =>
            (\E outcome \in StopOutcomes : stop_portal(outcome))]_vars
    /\ [][(exit_result.error \in LoopErrors) =>
            (/\ pc' \in ExitPcs \cup {"done"}
             /\ command' = command
             /\ exit_result' = exit_result
             /\ Len(network_chan') >= Len(network_chan))]_vars
    /\ []((exit_result.error \in LoopErrors) =>
            (/\ pc \in ExitPcs \cup {"done"}
             /\ pc # "exit_kill" => (dnsmasq = "killed" /\ helperKills = 1)
             /\ pc # "done" => exit_chan = <<>>
             /\ pc = "done" => exit_chan = <<exit_result>>))

\* C15 witness: a session ended because the Activate reply could not be sent.
C15_Witness ==
    /\ pc = "done"
    /\ exit_chan = <<ExitErr("Sending access point ssids results failed")>>
    /\ exit_connection
    /\ dnsmasq = "killed"

\* C16, for an idle timeout of 0: once the Server is dead and the Orchestrator
\* waits at the top of the loop with nothing queued, the session eventually
\* ends with a failure ExitResult.
C16_ServerDeathEndsSession ==
    (server = "dead" /\ pc = "recv" /\ network_chan = <<>> /\ activity_timeout = 0)
        ~> (pc = "done" /\ exit_chan # <<>> /\ ~exit_chan[1].ok)

NumTimeouts(q) == Cardinality({i \in 1..Len(q) : q[i].type = "Timeout"})

\* C17: a Timer exists exactly when the idle timeout is nonzero and the threads
\* have been spawned; a Timeout enters the command queue only in the Timer's one
\* step from sleeping to done, which it eventually takes; so at most one Timeout
\* is ever queued or received, and none when the idle timeout is 0.
C17_OneTimeout ==
    /\ [](timer # "none" <=> (activity_timeout # 0 /\ server # "unspawned"))
    /\ [](activity_timeout = 0 =>
            (NumTimeouts(network_chan) = 0 /\ command # Timeout))
    /\ [](NumTimeouts(network_chan) <= 1)
    /\ [](timer # "done" => (NumTimeouts(network_chan) = 0 /\ command # Timeout))
    /\ [][(NumTimeouts(network_chan') > NumTimeouts(network_chan)) =>
            (/\ timer = "sleeping"
             /\ timer' = "done"
             /\ network_chan' = Append(network_chan, Timeout))]_vars
    /\ [][(timer' # timer) =>
            (\/ timer = "none" /\ timer' = "sleeping" /\ pc = "spawn"
             \/ timer = "sleeping" /\ timer' = "done")]_vars
    /\ [][Processed("Timeout") =>
            (timer = "done" /\ NumTimeouts(network_chan') = 0)]_vars
    /\ (timer = "sleeping") ~> (timer = "done")

\* C17 witness: the Orchestrator has received the Timer's Timeout after an
\* Activate, and goes on waiting with no Timeout left in the queue.
C17_Witness ==
    /\ pc = "recv"
    /\ command = Timeout
    /\ activated
    /\ timer = "done"

\* C18: whenever the Orchestrator is at the top of the command loop it holds a
\* portal connection, NetworkManager has exactly one hotspot profile and it is
\* active, and the helper is running and has not been killed.
C18_LoopHead ==
    pc = "recv" =>
        /\ portal_connection
        /\ nm_hotspots = 1
        /\ nm_active = 1
        /\ dnsmasq = "running"
        /\ helperKills = 0

\* C18 witness: back at the top of the loop after an activated session's
\* Connect fell back and left a station profile behind.
C18_Witness ==
    /\ pc = "recv"
    /\ command.type = "Connect"
    /\ activated
    /\ nm_stations = 1

TimeoutPath == command = Timeout /\ ~activated
ConnectPath ==
    /\ command.type = "Connect"
    /\ state = "Activated"
    /\ connectivity \in {"Full", "Limited"}

\* C19: the exit routine carries a success result only on the Timeout path with
\* activated false or on the Connect path with an Activated join and a
\* successful poll, and a session that has ended has reported one ExitResult,
\* a success exactly on those two paths and a failure otherwise.
C19_SuccessOnlyOnTwoPaths ==
    /\ (pc \in ExitPcs /\ exit_result.ok) => (TimeoutPath \/ ConnectPath)
    /\ pc \in Ended =>
         /\ Len(exit_chan) = 1
         /\ exit_chan[1].ok <=> (TimeoutPath \/ ConnectPath)

\* C20: activated changes only when an Activate is processed; a Timeout
\* processed while activated is false enters the exit routine with success and
\* the portal connection; the helper is killed and stop_portal has run on that
\* connection before the ExitResult is sent, and the session ends with success.
C20_ConnectKeepsIdleTimeout ==
    /\ [][(activated' # activated) => Processed("Activate")]_vars
    /\ [][(Processed("Timeout") /\ ~activated) =>
            (/\ portal_connection
             /\ pc' = "exit_kill"
             /\ exit_result' = ExitOk
             /\ exit_connection')]_vars
    /\ [](TimeoutPath =>
            (/\ pc \in ExitPcs \cup {"done"}
             /\ exit_result = ExitOk
             /\ exit_connection
             /\ pc \in {"exit_send", "done"} => (dnsmasq = "killed" /\ helperKills = 1)
             /\ pc \in ExitPcs => exit_chan = <<>>))
    /\ [][(TimeoutPath /\ pc = "exit_stop_portal") =>
            (\E outcome \in StopOutcomes : stop_portal(outcome))]_vars
    /\ TimeoutPath ~> (pc = "done" /\ exit_chan = <<ExitOk>>)

\* C20 witness: a session that joined a network in a Connect, fell back, never
\* saw an Activate and was then ended with success by the Timeout.
C20_Witness ==
    /\ pc = "done"
    /\ TimeoutPath
    /\ nm_stations = 1
    /\ nm_hotspots = 0
    /\ exit_chan = <<ExitOk>>

====
